---- MODULE Spec2Model ----
(***************************************************************************)
(* git-cleanup (src/src/index.js): a command-line tool that shells out to  *)
(* git, parses the text git prints, and deletes the branches it finds      *)
(* merged, stale or gone.                                                  *)
(*                                                                         *)
(* Text is modelled as sequences of one-character strings, so that trim,   *)
(* split, replace, includes and startsWith are computed as the code        *)
(* computes them.  The repository is state (local branches, HEAD, the      *)
(* remote); what git prints is rendered from it.                           *)
(***************************************************************************)
EXTENDS Integers, Sequences, FiniteSets, TLC

VARIABLES
    local,      \* the repository: names of the local branches
    head,       \* the repository: the checked-out branch, or Detached
    remote,     \* the repository: [name, head, branches] of the first remote
    args,       \* process.argv.slice(2), parsed: [command, dryRun, force, days]
    pc,         \* where main() is
    phase,      \* within a merged/stale/gone block: "enum", "confirm", "delete", "end"
    batch,      \* the block's candidates: [sub, list, cur, def]
    idx,        \* the deletion loop's position in batch.list
    deleted,    \* the deletion loop's counter `deleted`
    calls,      \* deleteBranch calls of the current block: <<[branch, force, ok]>>
    asked,      \* lines read by confirm() in the current block
    report,     \* "Deleted X/Y branches" of the current block, or NoReport
    exitCode,   \* the process's exit code once it has ended, else -1
    fnIn,       \* function-level specifications: the input drawn by Init
    fnOut       \* function-level specifications: the result, or NotRun

vars == <<local, head, remote, args, pc, phase, batch, idx, deleted, calls,
          asked, report, exitCode, fnIn, fnOut>>

---------------------------------------------------------------------------
(* Text: JavaScript string operations on sequences of characters.          *)

Whitespace == {" ", "\n", "\t"}

RECURSIVE TrimStart(_)
TrimStart(s) ==
    IF s # <<>> /\ Head(s) \in Whitespace THEN TrimStart(Tail(s)) ELSE s

RECURSIVE TrimEnd(_)
TrimEnd(s) ==
    IF s # <<>> /\ s[Len(s)] \in Whitespace
    THEN TrimEnd(SubSeq(s, 1, Len(s) - 1))
    ELSE s

\* String.prototype.trim
Trim(s) == TrimEnd(TrimStart(s))

\* String.prototype.startsWith
StartsWith(s, p) == Len(p) <= Len(s) /\ SubSeq(s, 1, Len(p)) = p

\* String.prototype.includes
Includes(s, sub) ==
    \E i \in 1..(Len(s) - Len(sub) + 1) : SubSeq(s, i, i + Len(sub) - 1) = sub

\* Index of the first character of s that is in set cs, 0 when there is none.
FirstIn(s, cs) ==
    IF \E i \in 1..Len(s) : s[i] \in cs
    THEN CHOOSE i \in 1..Len(s) : s[i] \in cs /\ \A j \in 1..(i - 1) : s[j] \notin cs
    ELSE 0

\* String.prototype.split(sep) for a one-character separator: ''.split(sep) is [''].
RECURSIVE Split(_, _)
Split(s, sep) ==
    LET i == FirstIn(s, {sep}) IN
    IF i = 0 THEN <<s>>
    ELSE <<SubSeq(s, 1, i - 1)>> \o Split(SubSeq(s, i + 1, Len(s)), sep)

\* String.prototype.split(/\s+/): a run of whitespace is one separator.
RECURSIVE SplitWs(_)
SplitWs(s) ==
    LET i == FirstIn(s, Whitespace) IN
    IF i = 0 THEN <<s>>
    ELSE <<SubSeq(s, 1, i - 1)>> \o SplitWs(TrimStart(SubSeq(s, i, Len(s))))

\* b.replace(/^\* /, ''): drops a leading "* ".
StripStar(s) == IF StartsWith(s, <<"*", " ">>) THEN SubSeq(s, 3, Len(s)) ELSE s

\* lines.join(sep)
RECURSIVE Join(_, _)
Join(lines, sep) ==
    IF lines = <<>> THEN <<>>
    ELSE IF Len(lines) = 1 THEN lines[1]
    ELSE lines[1] \o <<sep>> \o Join(Tail(lines), sep)

UpperCase == <<"A", "B", "C", "D", "E", "F", "G", "H", "I", "J", "K", "L", "M",
               "N", "O", "P", "Q", "R", "S", "T", "U", "V", "W", "X", "Y", "Z">>
LowerCase == <<"a", "b", "c", "d", "e", "f", "g", "h", "i", "j", "k", "l", "m",
               "n", "o", "p", "q", "r", "s", "t", "u", "v", "w", "x", "y", "z">>

LowerChar(ch) ==
    IF \E i \in 1..Len(UpperCase) : UpperCase[i] = ch
    THEN LowerCase[CHOOSE i \in 1..Len(UpperCase) : UpperCase[i] = ch]
    ELSE ch

\* String.prototype.toLowerCase
ToLowerCase(s) == [i \in 1..Len(s) |-> LowerChar(s[i])]

Range(seq) == {seq[i] : i \in 1..Len(seq)}

Last(seq) == seq[Len(seq)]

---------------------------------------------------------------------------
(* Branch names and the fixed pieces of text git prints.                   *)

Main     == <<"m", "a", "i", "n">>
Master   == <<"m", "a", "s", "t", "e", "r">>
Dev      == <<"d", "e", "v">>
FeatA    == <<"f", "/", "a">>
FeatB    == <<"f", "/", "b">>
MainX    == <<"m", "a", "i", "n", "x">>
Origin   == <<"o", "r", "i", "g", "i", "n">>
\* What `git branch` prints in place of a name when HEAD is detached.
Detached == <<"(", "n", "o", " ", "b", "r", "a", "n", "c", "h", ")">>
Remotes  == <<"r", "e", "m", "o", "t", "e", "s", "/">>
RefsRemotes == <<"r", "e", "f", "s", "/">> \o Remotes
HeadRef  == <<"H", "E", "A", "D">>
GoneMark == <<":", " ", "g", "o", "n", "e", "]">>
Hash     == <<"c", "1">>
Subject  == <<"w", "i", "p">>

\* git lists branches sorted by name; a detached HEAD comes first.
NameOrder == <<Detached, Dev, FeatA, FeatB, Main, MainX, Master>>
BranchNames == {Dev, FeatA, Main, Master}

RECURSIVE InOrder(_, _)
InOrder(order, S) ==
    IF order = <<>> THEN <<>>
    ELSE (IF Head(order) \in S THEN <<Head(order)>> ELSE <<>>)
         \o InOrder(Tail(order), S)

---------------------------------------------------------------------------
(* The external tool.  A world w is what one enumeration sees: the         *)
(* repository (local, head, remote), which branches are merged into the    *)
(* default branch, which have lost their upstream, every branch's last     *)
(* commit, the clock, and which invocations fail.  Each Git* operator is   *)
(* one git invocation: [ok, out], out being the text on standard output.   *)

Marker(w, b) == IF b = w.head THEN <<"*", " ">> ELSE <<" ", " ">>

\* The local branches of w, with the detached-HEAD line when HEAD is detached.
Listed(w) == w.local \cup (IF w.head = Detached THEN {Detached} ELSE {})

Text(lines) == IF lines = <<>> THEN <<>> ELSE Join(lines, "\n") \o <<"\n">>

LocalLines(w, S) ==
    LET names == InOrder(NameOrder, S \cap Listed(w))
    IN  [i \in 1..Len(names) |-> Marker(w, names[i]) \o names[i]]

RemoteLines(w) ==
    LET names == InOrder(NameOrder, w.remote.branches)
        prefix == <<" ", " ">> \o Remotes \o w.remote.name \o <<"/">>
    IN  (IF w.remote.head # <<>>
         THEN <<prefix \o HeadRef \o <<" ", "-", ">", " ">> \o w.remote.name
                \o <<"/">> \o w.remote.head>>
         ELSE <<>>)
        \o [i \in 1..Len(names) |-> prefix \o names[i]]

\* git rev-parse --git-dir
GitRevParse(w) == [ok |-> "rev-parse" \notin w.failing, out |-> <<".", "g", "i", "t", "\n">>]

\* git branch --show-current
GitShowCurrent(w) ==
    [ok  |-> "show-current" \notin w.failing,
     out |-> IF w.head = Detached THEN <<>> ELSE w.head \o <<"\n">>]

\* git remote
GitRemote(w) ==
    [ok  |-> "remote" \notin w.failing,
     out |-> IF w.remote.name = <<>> THEN <<>> ELSE w.remote.name \o <<"\n">>]

\* git symbolic-ref refs/remotes/<name>/HEAD
GitSymbolicRef(w, name) ==
    [ok  |-> /\ "symbolic-ref" \notin w.failing
             /\ name = w.remote.name
             /\ w.remote.head # <<>>,
     out |-> RefsRemotes \o w.remote.name \o <<"/">> \o w.remote.head \o <<"\n">>]

\* git branch -a
GitBranchAll(w) ==
    [ok  |-> "branch -a" \notin w.failing,
     out |-> Text(LocalLines(w, Listed(w)) \o RemoteLines(w))]

\* git branch
GitBranch(w) ==
    [ok  |-> "branch" \notin w.failing,
     out |-> Text(LocalLines(w, Listed(w)))]

\* git branch --merged <target>: fails when target names no branch.
GitBranchMerged(w, target) ==
    [ok  |-> "branch --merged" \notin w.failing /\ target \in w.local,
     out |-> Text(LocalLines(w, w.merged \cup {target}))]

\* git log -1 --format=%ci <branch>: the committer date [day, sec, tz] as the
\* wall clock of the committer's time zone (tz in minutes east of UTC).
SecPerDay == 24 * 60 * 60

GitLog(w, branch) ==
    [ok   |-> branch \in w.local /\ branch \notin w.logFails,
     date |-> IF branch \in w.local /\ branch \notin w.garbled
              THEN LET c == w.commits[branch]
                       wall == c.at + c.tz * 60
                   IN  [valid |-> TRUE, day |-> wall \div SecPerDay,
                        sec |-> wall % SecPerDay, tz |-> c.tz]
              ELSE [valid |-> FALSE, day |-> 0, sec |-> 0, tz |-> 0]]

Tracking(w, b) ==
    IF b \in w.gone
    THEN <<"[">> \o w.remote.name \o <<"/">> \o b \o GoneMark \o <<" ">>
    ELSE IF b \in w.remote.branches
    THEN <<"[">> \o w.remote.name \o <<"/">> \o b \o <<"]", " ">>
    ELSE <<>>

\* git branch -vv
GitBranchVV(w) ==
    LET names == InOrder(NameOrder, Listed(w))
    IN  [ok  |-> "branch -vv" \notin w.failing,
         out |-> Text([i \in 1..Len(names) |->
                        Marker(w, names[i]) \o names[i] \o <<" ">> \o Hash
                        \o <<" ">> \o Tracking(w, names[i]) \o Subject])]

\* git fetch --prune
GitFetchPrune(w) == [ok |-> "fetch" \notin w.failing, out |-> <<>>]

---------------------------------------------------------------------------
(* The program's functions.  A result is [threw, val]: threw is TRUE when  *)
(* the function ends by an uncaught exception.                             *)

Threw == [threw |-> TRUE, val |-> <<>>]
Returned(v) == [threw |-> FALSE, val |-> v]

\* run(cmd, options): the trimmed output; on failure '' under ignoreError,
\* an exception otherwise.
run(res, ignoreError) ==
    IF res.ok THEN Returned(Trim(res.out))
    ELSE IF ignoreError THEN Returned(<<>>)
    ELSE Threw

isGitRepo(w) == ~run(GitRevParse(w), FALSE).threw

\* The fallback of getDefaultBranch: `git branch -a` is run outside the try.
DefaultFallback(w) ==
    LET branches == run(GitBranchAll(w), FALSE)
    IN  IF branches.threw THEN Threw
        ELSE IF Includes(branches.val, Main) THEN Returned(Main)
        ELSE IF Includes(branches.val, Master) THEN Returned(Master)
        ELSE Returned(Main)

getDefaultBranch(w) ==
    LET remotes == run(GitRemote(w), FALSE)
    IN  IF remotes.threw THEN DefaultFallback(w)
        ELSE LET first == Split(remotes.val, "\n")[1]
                 name  == IF first # <<>> THEN first ELSE Origin
                 ref   == run(GitSymbolicRef(w, name), TRUE)
             IN  IF ref.val # <<>>
                 THEN Returned(Last(Split(ref.val, "/")))
                 ELSE DefaultFallback(w)

\* .map(b => b.trim().replace(/^\* /, ''))
RECURSIVE CleanLines(_)
CleanLines(lines) ==
    IF lines = <<>> THEN <<>>
    ELSE <<StripStar(Trim(Head(lines)))>> \o CleanLines(Tail(lines))

\* .filter(b => b && b !== current && b !== defaultBranch && !b.startsWith('remotes/'))
RECURSIVE MergedFilter(_, _, _)
MergedFilter(lines, current, defaultBranch) ==
    IF lines = <<>> THEN <<>>
    ELSE LET b == Head(lines)
         IN  (IF /\ b # <<>>
                 /\ b # current
                 /\ b # defaultBranch
                 /\ ~StartsWith(b, Remotes)
              THEN <<b>> ELSE <<>>)
             \o MergedFilter(Tail(lines), current, defaultBranch)

getMergedBranches(w) ==
    LET current == run(GitShowCurrent(w), FALSE)
        defaultBranch == getDefaultBranch(w)
    IN  IF current.threw \/ defaultBranch.threw THEN Threw
        ELSE LET out == run(GitBranchMerged(w, defaultBranch.val), TRUE).val
             IN  Returned(MergedFilter(CleanLines(Split(out, "\n")),
                                       current.val, defaultBranch.val))

RECURSIVE StaleFilterKeepsDefault(_, _, _)
StaleFilterKeepsDefault(lines, current, defaultBranch) ==
    IF lines = <<>> THEN <<>>
    ELSE LET b == Head(lines)
         IN  (IF b # <<>> /\ b # current THEN <<b>> ELSE <<>>)
             \o StaleFilterKeepsDefault(Tail(lines), current, defaultBranch)

\* .filter(b => b && b !== current && b !== defaultBranch)
RECURSIVE StaleFilter(_, _, _)
StaleFilter(lines, current, defaultBranch) ==
    IF lines = <<>> THEN <<>>
    ELSE LET b == Head(lines)
         IN  (IF b # <<>> /\ b # current /\ b # defaultBranch
              THEN <<b>> ELSE <<>>)
             \o StaleFilter(Tail(lines), current, defaultBranch)

\* Instants are [s, ms]: whole seconds since the epoch and the milliseconds
\* within the second, ordered as the millisecond count s * 1000 + ms is.
\* nan marks the NaN that Date.prototype.getTime gives for an invalid date.
Instant(s, ms) == [nan |-> FALSE, s |-> s, ms |-> ms]
NaN == [nan |-> TRUE, s |-> 0, ms |-> 0]

LessOrEqual(a, b) ==
    /\ ~a.nan /\ ~b.nan
    /\ (a.s < b.s \/ (a.s = b.s /\ a.ms <= b.ms))

\* a < b on numbers: false when either is NaN.
LessThan(a, b) ==
    /\ ~a.nan /\ ~b.nan
    /\ (a.s < b.s \/ (a.s = b.s /\ a.ms < b.ms))

\* new Date(dateStr).getTime(): the instant the wall clock and zone spell.
DateGetTime(date) ==
    IF date.valid
    THEN Instant(date.day * SecPerDay + date.sec - date.tz * 60, 0)
    ELSE NaN

\* Date.now() - (days * 24 * 60 * 60 * 1000)
Cutoff(now, days) == Instant(now.s - days * SecPerDay, now.ms)

\* Math.floor((Date.now() - lastCommit) / (24 * 60 * 60 * 1000))
\* (the floor of the millisecond difference over a day of milliseconds, with
\* the milliseconds carried into the seconds first).
DaysAgo(now, lastCommit) ==
    ((now.s - lastCommit.s) + ((now.ms - lastCommit.ms) \div 1000)) \div SecPerDay

\* The for loop of getStaleBranches over the candidates from position i.
RECURSIVE StaleLoop(_, _, _, _)
StaleLoop(w, branches, i, cutoff) ==
    IF i > Len(branches) THEN <<>>
    ELSE LET branch == branches[i]
             log == GitLog(w, branch)
             lastCommit == DateGetTime(log.date)
         IN  (IF log.ok /\ LessThan(lastCommit, cutoff)
              THEN <<[branch |-> branch, daysAgo |-> DaysAgo(w.later, lastCommit)]>>
              ELSE <<>>)
             \o StaleLoop(w, branches, i + 1, cutoff)

\* stale.sort((a, b) => b.daysAgo - a.daysAgo): stable, largest daysAgo first.
RECURSIVE InsertByDaysAgo(_, _)
InsertByDaysAgo(sorted, x) ==
    IF sorted = <<>> THEN <<x>>
    ELSE IF Head(sorted).daysAgo >= x.daysAgo
    THEN <<Head(sorted)>> \o InsertByDaysAgo(Tail(sorted), x)
    ELSE <<x>> \o sorted

RECURSIVE SortByDaysAgo(_)
SortByDaysAgo(list) ==
    IF list = <<>> THEN <<>>
    ELSE InsertByDaysAgo(SortByDaysAgo(SubSeq(list, 1, Len(list) - 1)), Last(list))

getStaleBranches(w, days) ==
    LET current == run(GitShowCurrent(w), FALSE)
        defaultBranch == getDefaultBranch(w)
        cutoff == Cutoff(w.now, days)
        listing == run(GitBranch(w), FALSE)
    IN  IF current.threw \/ defaultBranch.threw \/ listing.threw THEN Threw
        ELSE LET branches == StaleFilter(CleanLines(Split(listing.val, "\n")),
                                         current.val, defaultBranch.val)
             IN  Returned(SortByDaysAgo(StaleLoop(w, branches, 1, cutoff)))

\* .filter(line => line.includes(': gone]'))
RECURSIVE GoneFilter(_)
GoneFilter(lines) ==
    IF lines = <<>> THEN <<>>
    ELSE (IF Includes(Head(lines), GoneMark) THEN <<Head(lines)>> ELSE <<>>)
         \o GoneFilter(Tail(lines))

\* .map(line => line.trim().split(/\s+/)[0].replace(/^\* /, ''))
RECURSIVE GoneNames(_)
GoneNames(lines) ==
    IF lines = <<>> THEN <<>>
    ELSE <<StripStar(SplitWs(Trim(Head(lines)))[1])>> \o GoneNames(Tail(lines))

getGoneBranches(w) ==
    LET fetched == run(GitFetchPrune(w), TRUE)
        listing == run(GitBranchVV(w), FALSE)
    IN  IF fetched.threw \/ listing.threw THEN Threw
        ELSE Returned(GoneNames(GoneFilter(Split(listing.val, "\n"))))

\* deleteBranch(branch, force): the flag given to `git branch`.
DeleteFlag(force) == IF force THEN "-D" ELSE "-d"

confirmCaseSensitive(answer) == StartsWith(answer, <<"y">>)

\* confirm(question): answer.toLowerCase().startsWith('y')
confirm(answer) == StartsWith(ToLowerCase(answer), <<"y">>)

Digits == <<"0", "1", "2", "3", "4", "5", "6", "7", "8", "9">>
IsDigit(ch) == \E i \in 1..10 : Digits[i] = ch
DigitValue(ch) == (CHOOSE i \in 1..10 : Digits[i] = ch) - 1

\* parseInt(s, 10) on the leading digits of s; -1 stands for NaN.
RECURSIVE ParseDigits(_, _)
ParseDigits(s, acc) ==
    IF s # <<>> /\ IsDigit(Head(s))
    THEN ParseDigits(Tail(s), acc * 10 + DigitValue(Head(s)))
    ELSE acc

parseInt(s) == IF s # <<>> /\ IsDigit(Head(s)) THEN ParseDigits(s, 0) ELSE -1

\* x.toFixed(1) for x = sizeNum / unit, in tenths, rounded half up.
Tenths(sizeNum, unit) == (sizeNum * 20 + unit) \div (2 * unit)

\* One line of the large-object pipeline, "<hash> <size> <path>".
LargeFile(line) ==
    LET parts == SplitWs(line)
        sizeNum == IF Len(parts) >= 2 THEN parseInt(parts[2]) ELSE -1
    IN  [hash |-> parts[1],
         size |-> sizeNum,
         unit |-> IF sizeNum > 1024 * 1024 THEN "MB"
                  ELSE IF sizeNum > 1024 THEN "KB" ELSE "B",
         tenths |-> IF sizeNum > 1024 * 1024 THEN Tenths(sizeNum, 1024 * 1024)
                    ELSE IF sizeNum > 1024 THEN Tenths(sizeNum, 1024)
                    ELSE sizeNum * 10,
         path |-> Join(SubSeq(parts, 3, Len(parts)), " ")]

\* .filter(Boolean).map(line => ...)
RECURSIVE LargeFiles(_)
LargeFiles(lines) ==
    IF lines = <<>> THEN <<>>
    ELSE (IF Head(lines) # <<>> THEN <<LargeFile(Head(lines))>> ELSE <<>>)
         \o LargeFiles(Tail(lines))

\* getLargeFiles(count): res is the pipeline's [ok, out].
getLargeFiles(res) ==
    LET result == run(res, TRUE).val
    IN  IF result = <<>> THEN <<>> ELSE LargeFiles(Split(result, "\n"))

---------------------------------------------------------------------------
(* main(): the run of the program as a state machine.                      *)

MaxBranches == 3    \* local branches of a repository
MaxFailing  == 1    \* git invocations that fail during one enumeration
MaxAnswer   == 2    \* characters of a line typed at the prompt

DefaultDays == 30

Subs == {"merged", "stale", "gone"}
Commands == {"", "--help", "merged", "stale", "gone", "large", "all", "prune"}

\* The block that follows block b in main().
NextBlock(b) ==
    CASE b = "merged" -> "stale"
      [] b = "stale"  -> "gone"
      [] b = "gone"   -> "large"
      [] b = "large"  -> "prune"
      [] b = "prune"  -> "done"

\* deleteBranch(branch) in the merged block, deleteBranch(branch, true) in the
\* stale and gone blocks.
ForceArgAlways(sub) == TRUE

ForceArg(sub) == sub # "merged"

NoBatch  == [sub |-> "", list |-> <<>>, cur |-> <<>>, def |-> <<>>, found |-> <<>>]
NoReport == [deleted |-> -1, attempted |-> -1]
NoInput  == [fn |-> ""]
NotRun   == [threw |-> FALSE, val |-> <<>>, ran |-> FALSE]

\* The clock of a run: Date.now() at line 67 and, later, at line 80.
Now == Instant(100 * SecPerDay, 0)

NoRemote == [name |-> <<>>, head |-> <<>>, branches |-> {}]
RemoteStates ==
    {NoRemote,
     [name |-> Origin, head |-> Main, branches |-> {Main}],
     [name |-> Origin, head |-> Master, branches |-> {Master}]}

Repositories ==
    {r \in [local : SUBSET BranchNames, head : BranchNames \cup {Detached},
            remote : RemoteStates] :
        /\ r.local # {}
        /\ Cardinality(r.local) <= MaxBranches
        /\ r.head \in r.local \cup {Detached}}

\* --days is given, if at all, to the commands that read it.
ArgSets ==
    {a \in [command : Commands, dryRun : BOOLEAN, force : BOOLEAN,
            days : {DefaultDays, 60}] :
        a.days # DefaultDays => a.command \in {"stale", "all"}}

Init ==
    /\ \E r \in Repositories :
        /\ local = r.local
        /\ head = r.head
        /\ remote = r.remote
    /\ args \in ArgSets
    /\ pc = "start"
    /\ phase = "enum"
    /\ batch = NoBatch
    /\ idx = 0
    /\ deleted = 0
    /\ calls = <<>>
    /\ asked = <<>>
    /\ report = NoReport
    /\ exitCode = -1
    /\ fnIn = NoInput
    /\ fnOut = NotRun

\* The world a run sees when nothing is known of merges, upstreams or commits.
World ==
    [local |-> local, head |-> head, remote |-> remote, merged |-> {},
     gone |-> {}, commits |-> [b \in local |-> [at |-> Now.s, tz |-> 0]],
     now |-> Now, later |-> Now, failing |-> {}, logFails |-> {},
     garbled |-> {}]

FailSets(kinds) == {F \in SUBSET kinds : Cardinality(F) <= MaxFailing}

DefaultKinds == {"show-current", "remote", "symbolic-ref", "branch -a"}

\* Ages in days of the last commits a run of main() meets.
Ages == {1, 45, 90}

\* What the enumeration of block sub can meet in this repository.
\* Either every invocation succeeds and the repository is any, or some fail
\* and every branch is merged, old and without upstream.
Failures(kinds) == FailSets(kinds) \ {{}}
CommitsAt(a) == [b \in local |-> [at |-> Now.s - a[b] * SecPerDay, tz |-> 0]]
Upstreams == IF remote.name = <<>> THEN {{}} ELSE SUBSET local

Worlds(sub) ==
    CASE sub = "merged" ->
           {[World EXCEPT !.merged = m] : m \in SUBSET Listed(World)}
           \cup {[World EXCEPT !.merged = Listed(World), !.failing = f] :
                   f \in Failures(DefaultKinds \cup {"branch --merged"})}
      [] sub = "stale" ->
           {[World EXCEPT !.commits = CommitsAt(a)] : a \in [local -> Ages]}
           \cup {[World EXCEPT !.commits = CommitsAt([b \in local |-> 90]),
                               !.logFails = l] : l \in Failures(local)}
           \cup {[World EXCEPT !.commits = CommitsAt([b \in local |-> 90]),
                               !.failing = f] :
                   f \in Failures(DefaultKinds \cup {"branch"})}
      [] sub = "gone" ->
           {[World EXCEPT !.gone = g] : g \in Upstreams}
           \cup {[World EXCEPT !.gone = IF remote.name = <<>> THEN {} ELSE local,
                               !.failing = f] :
                   f \in Failures({"fetch", "branch -vv"})}

\* .map(({ branch }) => branch)
BranchesOf(stale) == [i \in 1..Len(stale) |-> stale[i].branch]

\* The candidates block sub finds in world w, with the current and default
\* branch its enumerator resolved.
Candidates(sub, w) ==
    LET r == CASE sub = "merged" -> getMergedBranches(w)
               [] sub = "stale"  -> getStaleBranches(w, args.days)
               [] sub = "gone"   -> getGoneBranches(w)
    IN  [threw |-> r.threw,
         batch |-> [sub   |-> sub,
                    list  |-> IF sub = "stale" THEN BranchesOf(r.val) ELSE r.val,
                    cur   |-> IF sub = "gone" \/ r.threw THEN <<>>
                              ELSE run(GitShowCurrent(w), FALSE).val,
                    def   |-> IF sub = "gone" \/ r.threw THEN <<>>
                              ELSE getDefaultBranch(w).val,
                    found |-> r.val]]

\* Lines 200-209: what follows the listing of a block's candidates.
AfterListingForceFirst(list) ==
    IF list = <<>> THEN "end"
    ELSE IF args.force THEN "delete"
    ELSE IF args.dryRun THEN "end"
    ELSE "confirm"

AfterListingAlwaysAsk(list) ==
    IF list = <<>> \/ args.dryRun THEN "end" ELSE "confirm"

AfterListing(list) ==
    IF list = <<>> \/ args.dryRun THEN "end"
    ELSE IF args.force THEN "delete"
    ELSE "confirm"

\* Lines 212-217: `deleted++` when deleteBranch returned true.
CountedAlways(count, ok) == count + 1

Counted(count, ok) == IF ok THEN count + 1 ELSE count

Ended(code, at) ==
    /\ pc' = at
    /\ exitCode' = code
    /\ UNCHANGED <<local, head, remote, args, phase, batch, idx, deleted, calls,
                   asked, report, fnIn, fnOut>>

Goto(b) ==
    /\ pc' = b
    /\ UNCHANGED <<local, head, remote, args, phase, batch, idx, deleted, calls,
                   asked, report, exitCode, fnIn, fnOut>>

\* Lines 152-180: the help text, and nothing else.
Help ==
    /\ pc = "start"
    /\ args.command \in {"--help", "-h", ""}
    /\ Ended(0, "help")

\* Lines 182-185: outside a repository the run ends with exit code 1.
NotARepository ==
    /\ pc = "start"
    /\ args.command \notin {"--help", "-h", ""}
    /\ ~isGitRepo([failing |-> {"rev-parse"}])
    /\ Ended(1, "fatal")

\* Lines 182-194: the repository check passes.
Begin ==
    /\ pc = "start"
    /\ args.command \notin {"--help", "-h", ""}
    /\ isGitRepo([failing |-> {}])
    /\ Goto("merged")

\* A block whose command was not given.
Skip(b) ==
    /\ pc = b
    /\ phase = "enum"
    /\ args.command \notin {b, "all"}
    /\ Goto(NextBlock(b))

\* Lines 196-207, 225-238, 256-267: enumerate, list, and decide what follows.
Enumerate(sub) ==
    /\ pc = sub
    /\ phase = "enum"
    /\ args.command \in {sub, "all"}
    /\ \E w \in Worlds(sub) :
        LET c == Candidates(sub, w) IN
        IF c.threw
        THEN /\ pc' = "rejected"
             /\ exitCode' = 0
             /\ UNCHANGED <<phase, batch, idx, deleted, calls, asked, report>>
        ELSE /\ batch' = c.batch
             /\ idx' = 1
             /\ deleted' = 0
             /\ calls' = <<>>
             /\ asked' = <<>>
             /\ report' = NoReport
             /\ exitCode' = exitCode
             /\ pc' = sub
             /\ phase' = AfterListing(c.batch.list)
    /\ UNCHANGED <<local, head, remote, args, fnIn, fnOut>>

AnswerChars == {"y", "Y", "n"}

RECURSIVE SeqsUpTo(_, _)
SeqsUpTo(S, n) ==
    IF n = 0 THEN {<<>>}
    ELSE LET shorter == SeqsUpTo(S, n - 1)
         IN  shorter \cup {Append(q, x) : q \in shorter, x \in S}

Answers == SeqsUpTo(AnswerChars, MaxAnswer)

\* Lines 208-209, 239-240, 268-269 without --force: one line is read.
Confirm(sub) ==
    /\ pc = sub
    /\ phase = "confirm"
    /\ \E answer \in Answers :
        /\ asked' = Append(asked, answer)
        /\ phase' = IF confirm(answer) THEN "delete" ELSE "end"
    /\ UNCHANGED <<local, head, remote, args, pc, batch, idx, deleted, calls,
                   report, exitCode, fnIn, fnOut>>

\* `git branch -d|-D <branch>` can succeed only for a local branch that is
\* not checked out, and removes it.
CanDelete(branch) == branch \in local /\ branch # head

\* Lines 210-219, 241-250, 270-279: one iteration of the deletion loop, and
\* after the last one the report.
Delete(sub) ==
    /\ pc = sub
    /\ phase = "delete"
    /\ LET branch == batch.list[idx] IN
       \E ok \in {FALSE, CanDelete(branch)} :
        /\ calls' = Append(calls, [branch |-> branch,
                                   flag |-> DeleteFlag(ForceArg(sub)),
                                   ok |-> ok])
        /\ deleted' = Counted(deleted, ok)
        /\ local' = IF ok THEN local \ {branch} ELSE local
        /\ IF idx = Len(batch.list)
           THEN /\ report' = [deleted |-> deleted', attempted |-> Len(batch.list)]
                /\ phase' = "end"
                /\ idx' = idx
           ELSE /\ idx' = idx + 1
                /\ UNCHANGED <<report, phase>>
    /\ UNCHANGED <<head, remote, args, pc, batch, asked, exitCode, fnIn, fnOut>>

\* The block is left: what it found, asked and called is kept no longer.
Leave(sub) ==
    /\ pc = sub
    /\ phase = "end"
    /\ pc' = NextBlock(sub)
    /\ phase' = "enum"
    /\ batch' = NoBatch
    /\ idx' = 0
    /\ deleted' = 0
    /\ calls' = <<>>
    /\ asked' = <<>>
    /\ report' = NoReport
    /\ UNCHANGED <<local, head, remote, args, exitCode, fnIn, fnOut>>

\* The large-object pipeline prints "<hash> <size> <path>" lines, or fails.
LargeOutputs ==
    {[ok |-> o, out |-> t] :
        o \in BOOLEAN,
        t \in {<<>>,
               <<"h", "1", " ", "2", "0", "4", "8", " ", "a", "\n",
                 "h", "2", " ", "9", "9", " ", "b", " ", "c", "\n">>}}

\* Lines 285-299.
Large ==
    /\ pc = "large"
    /\ phase = "enum"
    /\ args.command \in {"large", "all"}
    /\ \E res \in LargeOutputs :
        batch' = [NoBatch EXCEPT !.sub = "large", !.found = getLargeFiles(res)]
    /\ pc' = "prune"
    /\ UNCHANGED <<local, head, remote, args, phase, idx, deleted, calls, asked,
                   report, exitCode, fnIn, fnOut>>

\* Lines 301-311: under the prune command `git fetch --prune` runs inside
\* try/catch, so that whether or not it throws the run goes on to "Done!".
Prune ==
    /\ pc = "prune"
    /\ \E f \in FailSets({"fetch"}) :
         LET caught == args.command = "prune"
                       /\ run(GitFetchPrune([failing |-> f]), FALSE).threw
         IN  caught \in BOOLEAN
    /\ Ended(0, "done")

Next ==
    \/ Help
    \/ NotARepository
    \/ Begin
    \/ \E b \in Subs \cup {"large"} : Skip(b)
    \/ \E sub \in Subs : Enumerate(sub)
    \/ \E sub \in Subs : Confirm(sub)
    \/ \E sub \in Subs : Delete(sub)
    \/ \E sub \in Subs : Leave(sub)
    \/ Large
    \/ Prune

Spec == Init /\ [][Next]_vars

---------------------------------------------------------------------------
(* The enumerators on their own: Init draws a world, the one action applies *)
(* the function to it.  main() does not run (pc = "fn").                    *)

MaxCandidates == 3   \* branches besides main in a world of getStaleBranches

Idle ==
    /\ local = {}
    /\ head = Detached
    /\ remote = NoRemote
    /\ args = [command |-> "", dryRun |-> FALSE, force |-> FALSE,
               days |-> DefaultDays]
    /\ pc = "fn"
    /\ phase = "enum"
    /\ batch = NoBatch
    /\ idx = 0
    /\ deleted = 0
    /\ calls = <<>>
    /\ asked = <<>>
    /\ report = NoReport
    /\ exitCode = -1

Result(r) == [threw |-> r.threw, val |-> r.val, ran |-> TRUE]

Apply(fn, r) ==
    /\ fnIn.fn = fn
    /\ ~fnOut.ran
    /\ fnOut' = Result(r)
    /\ UNCHANGED <<local, head, remote, args, pc, phase, batch, idx, deleted,
                   calls, asked, report, exitCode, fnIn>>

BlankWorld ==
    [local |-> {}, head |-> Detached, remote |-> NoRemote, merged |-> {},
     gone |-> {}, commits |-> <<>>, now |-> Now, later |-> Now,
     failing |-> {}, logFails |-> {}, garbled |-> {}]

HeadsOf(S) == S \cup {Detached}

\* Remotes: none, or origin with some branches and HEAD unset or at one of them.
RemotesOver(names) ==
    {NoRemote}
    \cup {[name |-> Origin, head |-> h, branches |-> B] :
            B \in SUBSET names, h \in names \cup {<<>>}}

\* --- getDefaultBranch ---

DefaultWorlds(pool, remotePool) ==
    {w \in {[BlankWorld EXCEPT !.local = l, !.head = h, !.remote = r,
                               !.failing = f] :
              l \in SUBSET pool,
              h \in HeadsOf(pool),
              r \in RemotesOver(remotePool),
              f \in FailSets({"remote", "symbolic-ref", "branch -a"})} :
        /\ w.local # {}
        /\ Cardinality(w.local) <= MaxBranches
        /\ w.head \in HeadsOf(w.local)
        /\ w.remote.head \in w.remote.branches \cup {<<>>}}

InitDefault ==
    /\ fnIn \in {[fn |-> "getDefaultBranch", w |-> w, days |-> DefaultDays] :
                   w \in DefaultWorlds({Main, Master, Dev, MainX}, {Main, Master, MainX})}
    /\ fnOut = NotRun
    /\ Idle

ApplyDefault == Apply("getDefaultBranch", getDefaultBranch(fnIn.w))

SpecDefault == InitDefault /\ [][ApplyDefault]_vars

\* --- getStaleBranches ---

StalePool == {Dev, FeatA, FeatB, Master}

\* Seconds between a last commit and the clock: about the 60-day cutoff.
StaleAges ==
    {59 * SecPerDay, 60 * SecPerDay - 1, 60 * SecPerDay, 60 * SecPerDay + 1,
     61 * SecPerDay}

\* Minutes east of UTC of the committers' clocks.
Zones == {0, 330}

\* The clock reads ms milliseconds past the second at line 67 and one
\* millisecond more at line 80.
StaleWorld(S, h, a, tz, ms) ==
    [BlankWorld EXCEPT
        !.local = S \cup {Main},
        !.head = h,
        !.remote = [name |-> Origin, head |-> Main, branches |-> {Main}],
        !.commits = [b \in S \cup {Main} |->
                       [at |-> Now.s - (IF b \in S THEN a[b] ELSE 0), tz |-> tz]],
        !.now = Instant(Now.s, ms),
        !.later = Instant(Now.s, ms + 1)]

StaleWorlds(pool) ==
    UNION {
      {StaleWorld(S, h, a, tz, ms) :
          h \in {Main, Detached}, a \in [S -> StaleAges], tz \in Zones,
          ms \in {0, 1}}
      \cup {[StaleWorld(S, Main, [b \in S |-> 61 * SecPerDay], 0, 0)
               EXCEPT !.logFails = l, !.garbled = g, !.failing = f] :
              l \in FailSets(S), g \in FailSets(S),
              f \in FailSets(DefaultKinds \cup {"branch"})}
      : S \in {T \in SUBSET pool :
                 T # {} /\ Cardinality(T) <= MaxCandidates}}

InitStale ==
    /\ fnIn \in {[fn |-> "getStaleBranches", w |-> w, days |-> d] :
                   w \in StaleWorlds(StalePool), d \in {DefaultDays, 60}}
    /\ fnOut = NotRun
    /\ Idle

ApplyStale == Apply("getStaleBranches", getStaleBranches(fnIn.w, fnIn.days))

SpecStale == InitStale /\ [][ApplyStale]_vars

\* --- getGoneBranches ---

GoneWorlds(pool) ==
    {w \in {[BlankWorld EXCEPT !.local = l, !.head = h, !.gone = g,
                               !.failing = f,
                               !.remote = [name |-> Origin, head |-> Main,
                                           branches |-> {Main, Dev}]] :
              l \in SUBSET pool,
              h \in HeadsOf(pool),
              g \in SUBSET pool,
              f \in FailSets({"fetch", "branch -vv"})} :
        /\ w.local # {}
        /\ Cardinality(w.local) <= MaxBranches
        /\ w.head \in HeadsOf(w.local)
        /\ w.gone \subseteq w.local}

InitGone ==
    /\ fnIn \in {[fn |-> "getGoneBranches", w |-> w, days |-> DefaultDays] :
                   w \in GoneWorlds({Main, Dev, FeatA, FeatB})}
    /\ fnOut = NotRun
    /\ Idle

ApplyGone == Apply("getGoneBranches", getGoneBranches(fnIn.w))

SpecGone == InitGone /\ [][ApplyGone]_vars

---------------------------------------------------------------------------
(* Properties of the enumerators.                                          *)

Finished(fn) == fnIn.fn = fn /\ fnOut.ran /\ ~fnOut.threw

\* The last commit, in whole seconds, is before now minus days days.
OlderThanDays(at, now, days) ==
    \/ at < now.s - days * SecPerDay
    \/ at = now.s - days * SecPerDay /\ 0 < now.ms

StaleNames == {fnOut.val[i].branch : i \in 1..Len(fnOut.val)}

\* C3: getStaleBranches returns a candidate iff its last commit is strictly
\* before the cutoff, now minus the threshold in days; a candidate exactly at
\* the cutoff, or whose timestamp lookup fails, is left out.
StaleIffBeforeCutoff ==
    Finished("getStaleBranches") =>
        LET w == fnIn.w
            candidates == w.local \ {w.head, getDefaultBranch(w).val}
        IN  /\ StaleNames \subseteq candidates
            /\ \A b \in candidates :
                  b \in StaleNames <=>
                      /\ b \notin w.logFails
                      /\ b \notin w.garbled
                      /\ OlderThanDays(w.commits[b].at, w.now, fnIn.days)

\* --days 60 met branches 59 days, exactly 60 days and 61 days old, committed
\* in a zone east of UTC: only the last is stale.
StaleWitness ==
    /\ Finished("getStaleBranches")
    /\ fnIn.days = 60
    /\ fnIn.w.now.ms = 0
    /\ fnIn.w.local = {Main, Dev, FeatA, FeatB}
    /\ fnIn.w.commits[Dev] = [at |-> Now.s - 59 * SecPerDay, tz |-> 330]
    /\ fnIn.w.commits[FeatA] = [at |-> Now.s - 60 * SecPerDay, tz |-> 330]
    /\ fnIn.w.commits[FeatB] = [at |-> Now.s - 61 * SecPerDay, tz |-> 330]
    /\ fnOut.val = <<[branch |-> FeatB, daysAgo |-> 61]>>

\* A branch named b is in the all-branches listing of w.
Named(w, b) == b \in w.local \/ b \in w.remote.branches

\* The first remote's HEAD symbolic reference resolves.
HeadResolves(w) ==
    GitRemote(w).ok /\ GitSymbolicRef(w, w.remote.name).ok

\* C8: getDefaultBranch returns the last component of the first remote's
\* HEAD reference if that resolves, else main if a branch named main is
\* listed, else master if a branch named master is listed, else main.
DefaultBranchOrder ==
    Finished("getDefaultBranch") =>
        fnOut.val = LET w == fnIn.w IN
                    IF HeadResolves(w) THEN Last(Split(w.remote.head, "/"))
                    ELSE IF Named(w, Main) THEN Main
                    ELSE IF Named(w, Master) THEN Master
                    ELSE Main

\* C9: getGoneBranches returns the names of the branches whose line is
\* marked ": gone]", the checked-out one included, and nothing else.
GoneNamesReturned ==
    Finished("getGoneBranches") =>
        fnOut.val = InOrder(NameOrder, fnIn.w.gone)

---------------------------------------------------------------------------
(* Properties of a run of main().                                          *)

InBlock == pc \in Subs /\ batch.sub = pc

CalledBranches == [i \in 1..Len(calls) |-> calls[i].branch]

CountOk == Cardinality({i \in 1..Len(calls) : calls[i].ok})

\* C1: with --dry-run no block ever calls deleteBranch or confirm, whether or
\* not --force is given.
DryRunNeverDeletes ==
    args.dryRun => /\ calls = <<>>
                   /\ asked = <<>>
                   /\ phase \notin {"confirm", "delete"}
                   /\ report = NoReport

\* A block found candidates under --dry-run --force and ended without a call.
DryRunWitness ==
    /\ InBlock /\ phase = "end"
    /\ args.dryRun /\ args.force
    /\ Len(batch.list) >= 2
    /\ calls = <<>>

\* C2: the candidates of the merged and stale blocks hold neither the current
\* branch, nor the resolved default branch, nor an empty name, and no such
\* name is given to deleteBranch.
ProtectedBranchesExcluded ==
    (InBlock /\ pc \in {"merged", "stale"}) =>
        /\ \A b \in Range(batch.list) :
              b # <<>> /\ b # batch.cur /\ b # batch.def
        /\ \A b \in Range(CalledBranches) :
              b # <<>> /\ b # batch.cur /\ b # batch.def

\* The stale block deleted a branch while the current and the default branch,
\* both listed by git, are still there.
ProtectedWitness ==
    /\ InBlock /\ pc = "stale" /\ phase = "end"
    /\ batch.cur # <<>> /\ batch.cur # batch.def
    /\ {batch.cur, batch.def} \subseteq local
    /\ \E i \in 1..Len(calls) : calls[i].ok

\* C4 as stated: under --force every block with candidates asks nothing and
\* issues the delete calls for its candidates.
ForceAlwaysDeletes ==
    (InBlock /\ args.force /\ batch.list # <<>>) =>
        /\ asked = <<>>
        /\ phase # "confirm"
        /\ phase = "end" => CalledBranches = batch.list

\* C4 amended: under --force without --dry-run every block with candidates
\* asks nothing and issues the delete calls for its candidates.
ForceSkipsPrompt ==
    /\ args.force => asked = <<>> /\ phase # "confirm"
    /\ (InBlock /\ args.force /\ ~args.dryRun /\ batch.list # <<>>) =>
          /\ phase \in {"delete", "end"}
          /\ phase = "end" => CalledBranches = batch.list

\* A forced block ended having called deleteBranch for its two candidates.
ForceWitness ==
    /\ InBlock /\ phase = "end"
    /\ args.force /\ ~args.dryRun
    /\ Len(batch.list) = 2
    /\ CalledBranches = batch.list
    /\ asked = <<>>

\* C5: a batch that proceeds calls deleteBranch once per candidate in list
\* order whatever the earlier calls returned, and reports X/Y with Y the
\* number of candidates and X the number of calls that succeeded.
DeletionCounts ==
    InBlock =>
        /\ Len(calls) <= Len(batch.list)
        /\ \A i \in 1..Len(calls) : calls[i].branch = batch.list[i]
        /\ deleted = CountOk
        /\ phase = "delete" => Len(calls) = idx - 1
        /\ (phase = "end" /\ calls # <<>>) => report # NoReport
        /\ report # NoReport =>
              /\ Len(calls) = Len(batch.list)
              /\ report.attempted = Len(batch.list)
              /\ report.deleted = CountOk
              /\ report.deleted <= report.attempted

\* The first of two deletions failed, the second was still made, "1/2".
DeletionWitness ==
    /\ InBlock /\ phase = "end"
    /\ Len(batch.list) = 2 /\ Len(calls) = 2
    /\ ~calls[1].ok /\ calls[2].ok
    /\ report = [deleted |-> 1, attempted |-> 2]

\* Two merged candidates under --force, both deleted: "Deleted 2/2 branches".
TwoOfTwoWitness ==
    /\ InBlock /\ pc = "merged" /\ phase = "end"
    /\ args.force
    /\ Len(calls) = 2
    /\ report = [deleted |-> 2, attempted |-> 2]

BeginsWithY(answer) == answer # <<>> /\ answer[1] \in {"y", "Y"}

\* C6: without --force and --dry-run a block with candidates reads one line
\* and issues its delete calls iff the line begins with y or Y; after any
\* other line it calls nothing and goes on to the next block.
ConfirmationDecides ==
    (InBlock /\ ~args.force /\ ~args.dryRun /\ batch.list # <<>>) =>
        /\ phase = "confirm" => asked = <<>> /\ calls = <<>>
        /\ phase = "delete" => Len(asked) = 1 /\ BeginsWithY(asked[1])
        /\ phase = "end" =>
              /\ Len(asked) = 1
              /\ BeginsWithY(asked[1]) <=> CalledBranches = batch.list
              /\ ~BeginsWithY(asked[1]) => calls = <<>> /\ report = NoReport
              /\ ENABLED Leave(pc)

\* "Y" followed by another letter was typed and the candidates were deleted.
ConfirmationWitness ==
    /\ InBlock /\ phase = "end"
    /\ ~args.force /\ ~args.dryRun
    /\ Len(asked) = 1 /\ Len(asked[1]) = 2 /\ asked[1][1] = "Y"
    /\ calls # <<>>

\* C7: once the repository check has passed no failure of a git invocation
\* ends the run: it reaches "Done!"; exit code 1 comes from the check alone.
EnumerationFailuresSwallowed ==
    /\ pc # "rejected"
    /\ exitCode = 1 => pc = "fatal"

\* C10: the merged block calls `git branch -d`, the stale and gone blocks
\* `git branch -D`, with or without --force.
DeleteModePerBlock ==
    \A i \in 1..Len(calls) :
        calls[i].flag = IF pc = "merged" THEN "-d" ELSE "-D"

\* The merged block deleted under --force, unforced.
DeleteModeWitness ==
    /\ InBlock /\ pc = "merged"
    /\ args.force
    /\ \E i \in 1..Len(calls) : calls[i].ok /\ calls[i].flag = "-d"

====
